---- MODULE Spec2Model ----
(***************************************************************************)
(* Model of the image manager of daemon/mgr/image.go: reference            *)
(* resolution (CheckReference), PullImage with its drain goroutine,        *)
(* RemoveImage, bootstrap (updateLocalStore) and storeImageReference, over *)
(* the local reference store and the containerd content backend.           *)
(*                                                                         *)
(* The local store (imageStore), the reference grammar (pkg/reference),    *)
(* addDefaultRegistryIfMissing, uniqueLocatorReference, the progress       *)
(* stream (pkg/jsonstream) and the containerd client (ctrd) are modelled   *)
(* from their documented contracts.                                        *)
(***************************************************************************)
EXTENDS Integers, Sequences, FiniteSets, TLC

\* ------------------------------------------------------------------ bounds
\* Number of image handles the content backend may hold at once.
MaxImages == 2
\* Number of calls a lone caller makes after the manager is up.
MaxCalls == 3
\* Number of calls concurrent callers make, all together.
MaxConcCalls == 2
\* Number of progress events a backend pull may have pending in the stream.
MaxEvents == 1

\* ------------------------------------------------------- reference grammar
\* An image content; its config digest is the image ID, its manifest digest
\* is what img.Target().Digest returns.
Contents == {"1", "2"}
ConfigDigest(c) == "id" \o c
TargetDigest(c) == "mf" \o c
ContentOfTarget(d) == CHOOSE c \in Contents : TargetDigest(c) = d

Registries == {"", "localhost:5000"}
DefaultTag == "latest"

\* A reference string as a user writes it: [registry/]repo[:tag][@digest].
\* The empty string is the one unparsable input.
EmptyString == [reg |-> "", repo |-> "", tag |-> "", dig |-> ""]
Name(reg, tag, dig) == [reg |-> reg, repo |-> "busybox", tag |-> tag, dig |-> dig]
IDString(c) == [reg |-> "", repo |-> ConfigDigest(c), tag |-> "", dig |-> ""]
IDStrings == {IDString(c) : c \in Contents}

NoRef == [loc |-> [reg |-> "", repo |-> ""], tag |-> "", dig |-> ""]

\* reference.Parse: the string's locator, tag and digest.
Parse(s) ==
    IF s.repo = ""
    THEN [err |-> "invalid", ref |-> NoRef]
    ELSE [err |-> "",
          ref |-> [loc |-> [reg |-> s.reg, repo |-> s.repo],
                   tag |-> s.tag, dig |-> s.dig]]

\* Named.String(): the canonical string form, the store's lookup key.
String(ref) ==
    [reg |-> ref.loc.reg, repo |-> ref.loc.repo, tag |-> ref.tag, dig |-> ref.dig]

IsNamedOnly(ref) == ref.tag = "" /\ ref.dig = ""
IsNameTagged(ref) == ref.tag # "" /\ ref.dig = ""
IsCanonicalDigested(ref) == ref.dig # ""

WithDefaultTagIfMissing(ref) ==
    IF IsNamedOnly(ref) THEN [ref EXCEPT !.tag = DefaultTag] ELSE ref
TrimTagForDigest(ref) ==
    IF ref.dig # "" THEN [ref EXCEPT !.tag = ""] ELSE ref
WithDigest(ref, d) == [loc |-> ref.loc, tag |-> "", dig |-> d]

\* addDefaultRegistryIfMissing: the daemon's default registry (with its
\* namespace) is put in front of a string that names no registry.
addDefaultRegistryIfMissing(s, registry) ==
    IF s.reg = "" /\ s.repo # "" THEN [s EXCEPT !.reg = registry] ELSE s

\* ------------------------------------------------------------ local store
\* The store is the sequence of its reference records in insertion order.
Record(id, ref, primary) == [id |-> id, ref |-> ref, primary |-> primary]

RECURSIVE SelectRefs(_, _, _)
SelectRefs(st, id, onlyPrimary) ==
    IF st = <<>> THEN <<>>
    ELSE LET r == Head(st)
             rest == SelectRefs(Tail(st), id, onlyPrimary)
         IN IF r.id = id /\ (r.primary \/ ~onlyPrimary)
            THEN <<r.ref>> \o rest ELSE rest

GetPrimaryReferences(st, id) == SelectRefs(st, id, TRUE)
GetReferences(st, id) == SelectRefs(st, id, FALSE)

Range(seq) == {seq[i] : i \in 1..Len(seq)}
StoreIDs(st) == {r.id : r \in Range(st)}
DigestsOf(st, ref) == {r.id : r \in {x \in Range(st) : String(x.ref) = String(ref)}}

\* Search: a NameOnly reference is looked up as an image ID, any other one
\* by its canonical string.
Search(st, ref) ==
    IF IsNamedOnly(ref)
    THEN IF ref.loc.reg = "" /\ ref.loc.repo \in StoreIDs(st)
         THEN [err |-> "", id |-> ref.loc.repo, ref |-> ref]
         ELSE [err |-> "notfound", id |-> "", ref |-> NoRef]
    ELSE IF DigestsOf(st, ref) # {}
         THEN [err |-> "", id |-> CHOOSE d \in DigestsOf(st, ref) : TRUE, ref |-> ref]
         ELSE [err |-> "notfound", id |-> "", ref |-> NoRef]

\* GetPrimaryReference: the results the store may give, one Primary record
\* of the digest the reference resolves to.
GetPrimaryReference(st, ref) ==
    LET ids == DigestsOf(st, ref)
        prims == UNION {Range(GetPrimaryReferences(st, d)) : d \in ids}
    IN IF prims = {}
       THEN {[err |-> "notfound", ref |-> NoRef]}
       ELSE {[err |-> "", ref |-> p] : p \in prims}

\* One record of the store, made Primary where it stands.
Promote(st, ref) ==
    [i \in 1..Len(st) |->
        IF String(st[i].ref) = String(ref) THEN [st[i] EXCEPT !.primary = TRUE] ELSE st[i]]

\* AddReference without its conflict check: the references are appended
\* whatever they were bound to.
AddReferenceRebinding(st, id, primaryRef, ref) ==
    [err |-> "",
     store |-> IF String(ref) = String(primaryRef)
               THEN Append(st, Record(id, primaryRef, TRUE))
               ELSE Append(Append(st, Record(id, primaryRef, TRUE)), Record(id, ref, FALSE))]

\* AddReference(id, primaryRef, ref)
AddReference(st, id, primaryRef, ref) ==
    IF \/ DigestsOf(st, primaryRef) \ {id} # {}
       \/ DigestsOf(st, ref) \ {id} # {}
    THEN [err |-> "conflict", store |-> st]
    ELSE LET st1 == IF DigestsOf(st, primaryRef) = {}
                    THEN Append(st, Record(id, primaryRef, TRUE))
                    ELSE Promote(st, primaryRef)
             st2 == IF String(ref) = String(primaryRef) \/ DigestsOf(st1, ref) # {}
                    THEN st1
                    ELSE Append(st1, Record(id, ref, FALSE))
         IN [err |-> "", store |-> st2]

RECURSIVE DropRecord(_, _, _)
DropRecord(st, id, ref) ==
    IF st = <<>> THEN <<>>
    ELSE IF Head(st).id = id /\ String(Head(st).ref) = String(ref)
         THEN Tail(st)
         ELSE <<Head(st)>> \o DropRecord(Tail(st), id, ref)

RECURSIVE Purge(_, _)
\* The digest leaves the store, with whatever records it still has.
Purge(st, id) ==
    IF st = <<>> THEN <<>>
    ELSE IF Head(st).id = id THEN Purge(Tail(st), id)
         ELSE <<Head(st)>> \o Purge(Tail(st), id)

\* RemoveReference that deletes the record and never purges the digest.
RemoveReferenceNoPurge(st, id, ref) ==
    IF \E r \in Range(st) : r.id = id /\ String(r.ref) = String(ref)
    THEN [err |-> "", store |-> DropRecord(st, id, ref)]
    ELSE [err |-> "notfound", store |-> st]

\* RemoveReference(id, ref): deletes one record; a digest left with no
\* Primary record is purged, and its aliases go with it.
RemoveReference(st, id, ref) ==
    IF \E r \in Range(st) : r.id = id /\ String(r.ref) = String(ref)
    THEN LET st1 == DropRecord(st, id, ref)
         IN [err |-> "",
             store |-> IF GetPrimaryReferences(st1, id) = <<>> THEN Purge(st1, id) ELSE st1]
    ELSE [err |-> "notfound", store |-> st]

\* uniqueLocatorReference: all the references name one locator.
uniqueLocatorReference(refs) ==
    Cardinality({refs[i].loc : i \in 1..Len(refs)}) <= 1

\* --------------------------------------------------------- content backend
\* An image handle of the backend: img.Name() and the content it points at.
Image(name, c) == [name |-> name, content |-> c]
NoImage == [name |-> EmptyString, content |-> ""]
BackendNames(b) == {im.name : im \in b}

\* client.PullImage succeeding for `name` with content c: the handle is
\* created, or moved when the name is already there with other content.
backendPull(b, name, c) == {im \in b : im.name # name} \cup {Image(name, c)}
\* client.RemoveImage succeeding for `name`.
backendRemove(b, name) == {im \in b : im.name # name}

\* The contents a registry may serve for a normalized reference: a digest
\* binds the content, a tag does not.
PullableContents(ref) ==
    IF ref.dig # "" THEN {ContentOfTarget(ref.dig)} ELSE Contents

\* ------------------------------------------------------------------- state
Procs == {"p1", "p2"}

VARIABLES
    DefaultRegistry,  \* ImageManager.DefaultRegistry (with DefaultNamespace)
    mgr,              \* "init" before NewImageManager, then "up" or "failed"
    active,           \* the callers that issue calls
    calls,            \* the number of calls made so far
    backend,          \* the image handles of the content backend
    store,            \* ImageManager.localStore
    pc,               \* each caller's position in its current call
    op,               \* the operation of the current call
    arg,              \* its ref / idOrRef argument
    force,            \* RemoveImage's force argument
    id,               \* RemoveImage: id, from CheckReference
    namedRef,         \* PullImage / RemoveImage: namedRef
    primaryRef,       \* RemoveImage: primaryRef
    todo,             \* RemoveImage: what is left of the range over the primaries
    img,              \* PullImage: the handle client.PullImage returned
    err,              \* the error the call returned ("" is nil)
    rmCalls,          \* the names the call handed to client.RemoveImage, in order
    store0,           \* the store when the call began (of a lone caller)
    backend0,         \* the backend when the call began (of a lone caller)
    ctxCancelled,     \* PullImage: the caller cancelled ctx
    drainCancelled,   \* PullImage: the goroutine ran cancel()
    gpc,              \* PullImage: the goroutine's position
    streamBuf,        \* progress events written to the stream, not yet flushed
    streamClosed,     \* the backend closed the stream
    waitClosed,       \* close(wait) has run
    bootErr,          \* the error NewImageManager returned ("" is nil)
    searches,         \* CheckReference: the references handed to Search, in order
    infos             \* ListImages: imgInfosIndexByID, then the list returned

cfgVars == <<DefaultRegistry, mgr, active, bootErr>>
obsVars == <<searches, infos>>
\* (calls changes when a call begins)
callVars == <<op, arg, force, id, namedRef, primaryRef, todo, img, err, rmCalls,
              store0, backend0>>
pullVars == <<ctxCancelled, drainCancelled, gpc, streamBuf, streamClosed, waitClosed>>
vars == <<cfgVars, obsVars, calls, backend, store, pc, callVars, pullVars>>

\* pctx, derived from ctx by context.WithCancel: done when ctx is cancelled
\* or when cancel() has run.
PctxDone(p) == ctxCancelled[p] \/ drainCancelled[p]
\* stream.Wait() returns once the stream is closed and flushed.
StreamDrained(p) == streamClosed[p] /\ streamBuf[p] = 0

InitialBackends ==
    {{},
     {Image(Name("", DefaultTag, ""), "1")},
     {Image(Name("", DefaultTag, ""), "1"),
      Image(Name("localhost:5000", "", TargetDigest("1")), "1")}}

InitCommon ==
    /\ DefaultRegistry \in Registries
    /\ mgr = "init"
    /\ calls = 0
    /\ backend \in InitialBackends
    /\ store = <<>>
    /\ pc = [p \in Procs |-> "idle"]
    /\ op = [p \in Procs |-> "none"]
    /\ arg = [p \in Procs |-> EmptyString]
    /\ force = [p \in Procs |-> FALSE]
    /\ id = [p \in Procs |-> ""]
    /\ namedRef = [p \in Procs |-> NoRef]
    /\ primaryRef = [p \in Procs |-> NoRef]
    /\ todo = [p \in Procs |-> <<>>]
    /\ img = [p \in Procs |-> NoImage]
    /\ err = [p \in Procs |-> ""]
    /\ rmCalls = [p \in Procs |-> <<>>]
    /\ store0 = [p \in Procs |-> <<>>]
    /\ backend0 = [p \in Procs |-> {}]
    /\ ctxCancelled = [p \in Procs |-> FALSE]
    /\ drainCancelled = [p \in Procs |-> FALSE]
    /\ gpc = [p \in Procs |-> "none"]
    /\ streamBuf = [p \in Procs |-> 0]
    /\ streamClosed = [p \in Procs |-> FALSE]
    /\ waitClosed = [p \in Procs |-> FALSE]
    /\ bootErr = ""
    /\ searches = [p \in Procs |-> <<>>]
    /\ infos = [p \in Procs |-> {}]

\* One caller at a time.
Init == InitCommon /\ active = {"p1"}
\* Concurrent callers.
InitConc == InitCommon /\ active = Procs

\* ------------------------------------------------------ storeImageReference
\* storePrimaryReference with the error of img.Config looked at only after
\* the name was added.
storePrimaryReferenceLateCheck(st, im, cfgOk) ==
    LET pr == Parse(im.name)
        a == AddReference(st, ConfigDigest(im.content), pr.ref, pr.ref)
    IN IF pr.err # "" THEN [err |-> pr.err, store |-> st]
       ELSE IF ~cfgOk THEN [err |-> "config", store |-> a.store]
       ELSE a

\* Lines 299-312: the config descriptor, the parsed name, and the name added
\* as primary and searchable reference.
storePrimaryReference(st, im, cfgOk) ==
    IF ~cfgOk THEN [err |-> "config", store |-> st]
    ELSE LET pr == Parse(im.name)
         IN IF pr.err # "" THEN [err |-> pr.err, store |-> st]
            ELSE AddReference(st, ConfigDigest(im.content), pr.ref, pr.ref)

\* Line 319: digRef.
digRefOf(im) == WithDigest(Parse(im.name).ref, TargetDigest(im.content))

\* Lines 320-325: whether the digest reference is still to be added.
digRefMissing(st, im) == Search(st, digRefOf(im)).err = "notfound"

\* storeDigestReference with the digest reference given as its own primary
\* reference.
storeDigestReferenceAsPrimary(st, im) ==
    AddReference(st, ConfigDigest(im.content), digRefOf(im), digRefOf(im))

\* Line 322: the digest reference added as searchable reference of the name.
storeDigestReference(st, im) ==
    AddReference(st, ConfigDigest(im.content), Parse(im.name).ref, digRefOf(im))

\* storeImageReference as one call, as updateLocalStore runs it.
storeImageReference(st, im, cfgOk) ==
    LET a == storePrimaryReference(st, im, cfgOk)
    IN IF a.err # "" THEN a
       ELSE IF IsNameTagged(Parse(im.name).ref) /\ digRefMissing(a.store, im)
            THEN storeDigestReference(a.store, im)
            ELSE [err |-> "", store |-> a.store]

\* ---------------------------------------------------------------- bootstrap
\* The orders in which client.ListImages may list the backend's handles.
Listings(b) ==
    {l \in UNION {[1..n -> b] : n \in {Cardinality(b)}} : Range(l) = b}

RECURSIVE storeAll(_, _, _)
\* updateLocalStore's loop over imgs; failAt is the position of the handle
\* whose Config fails (0: none).
storeAll(st, imgs, failAt) ==
    IF imgs = <<>> THEN [err |-> "", store |-> st]
    ELSE LET r == storeImageReference(st, Head(imgs), failAt # 1)
         IN IF r.err # "" THEN r ELSE storeAll(r.store, Tail(imgs), failAt - 1)

\* updateLocalStore: client.ListImages under the deadline (listOk: it returned
\* in time and without error), then storeImageReference for each handle.
updateLocalStore(st, listOk, imgs, failAt) ==
    IF ~listOk THEN [err |-> "list", store |-> st]
    ELSE storeAll(st, imgs, failAt)

\* NewImageManager that logs the error of updateLocalStore and goes on.
NewImageManagerErrorLogged ==
    /\ mgr = "init"
    /\ \E listOk \in BOOLEAN, imgs \in Listings(backend),
          failAt \in 0..Cardinality(backend) :
          LET r == updateLocalStore(<<>>, listOk, imgs, failAt)
          IN /\ store' = r.store
             /\ bootErr' = ""
             /\ mgr' = "up"
    /\ UNCHANGED <<DefaultRegistry, active, obsVars, calls, backend, pc, callVars, pullVars>>

\* NewImageManager: a new store, filled by updateLocalStore; its error is
\* returned and no manager.
NewImageManager ==
    /\ mgr = "init"
    /\ \E listOk \in BOOLEAN, imgs \in Listings(backend),
          failAt \in 0..Cardinality(backend) :
          LET r == updateLocalStore(<<>>, listOk, imgs, failAt)
          IN /\ store' = r.store
             /\ bootErr' = r.err
             /\ mgr' = IF r.err # "" THEN "failed" ELSE "up"
    /\ UNCHANGED <<DefaultRegistry, active, obsVars, calls, backend, pc, callVars, pullVars>>

\* ---------------------------------------------------------------- PullImage
Idle(p) ==
    /\ mgr = "up"
    /\ p \in active
    /\ pc[p] = "idle"
    /\ calls < (IF active = {p} THEN MaxCalls ELSE MaxConcCalls)

\* The call's bookkeeping when it begins.
Begin(p, o, s, f) ==
    /\ calls' = calls + 1
    /\ op' = [op EXCEPT ![p] = o]
    /\ arg' = [arg EXCEPT ![p] = s]
    /\ force' = [force EXCEPT ![p] = f]
    /\ rmCalls' = [rmCalls EXCEPT ![p] = <<>>]
    /\ store0' = [store0 EXCEPT ![p] = IF active = {p} THEN store ELSE <<>>]
    /\ backend0' = [backend0 EXCEPT ![p] = IF active = {p} THEN backend ELSE {}]

\* The call returns e.
Finish(p, e) ==
    /\ pc' = [pc EXCEPT ![p] = "done"]
    /\ err' = [err EXCEPT ![p] = e]

\* Lines 160-177: the reference is normalized, and pctx, the stream and the
\* drain goroutine are created.
PullImage(p, s) ==
    /\ Idle(p)
    /\ Begin(p, "pull", s, FALSE)
    /\ LET pr == Parse(addDefaultRegistryIfMissing(s, DefaultRegistry))
       IN IF pr.err # ""
          THEN /\ Finish(p, pr.err)
               /\ UNCHANGED <<namedRef, gpc>>
          ELSE /\ namedRef' = [namedRef EXCEPT
                                 ![p] = TrimTagForDigest(WithDefaultTagIfMissing(pr.ref))]
               /\ gpc' = [gpc EXCEPT ![p] = "wait"]
               /\ pc' = [pc EXCEPT ![p] = "backend"]
               /\ UNCHANGED err
    /\ UNCHANGED <<cfgVars, obsVars, backend, store, id, primaryRef, todo, img,
                   ctxCancelled, drainCancelled, streamBuf, streamClosed, waitClosed>>

\* The caller cancels the ctx it handed to PullImage.
CallerCancel(p) ==
    /\ op[p] = "pull"
    /\ pc[p] \in {"backend", "await"}
    /\ ~ctxCancelled[p]
    /\ ctxCancelled' = [ctxCancelled EXCEPT ![p] = TRUE]
    /\ UNCHANGED <<cfgVars, obsVars, calls, backend, store, pc, callVars,
                   drainCancelled, gpc, streamBuf, streamClosed, waitClosed>>

\* client.PullImage, running: a progress event is written to the stream.
BackendProgress(p) ==
    /\ pc[p] = "backend"
    /\ streamBuf[p] < MaxEvents
    /\ streamBuf' = [streamBuf EXCEPT ![p] = @ + 1]
    /\ UNCHANGED <<cfgVars, obsVars, calls, backend, store, pc, callVars,
                   ctxCancelled, drainCancelled, gpc, streamClosed, waitClosed>>

\* The stream flushes one event to out.
StreamFlush(p) ==
    /\ streamBuf[p] > 0
    /\ streamBuf' = [streamBuf EXCEPT ![p] = @ - 1]
    /\ UNCHANGED <<cfgVars, obsVars, calls, backend, store, pc, callVars,
                   ctxCancelled, drainCancelled, gpc, streamClosed, waitClosed>>

\* Line 178: client.PullImage returns, with an image or with an error, and
\* has closed the stream.
BackendPullReturn(p) ==
    /\ pc[p] = "backend"
    /\ streamClosed' = [streamClosed EXCEPT ![p] = TRUE]
    /\ pc' = [pc EXCEPT ![p] = "await"]
    /\ \/ /\ err' = [err EXCEPT ![p] = "backend"]
          /\ UNCHANGED <<img, backend>>
       \/ \E c \in PullableContents(namedRef[p]) :
             LET name == String(namedRef[p])
             IN /\ Cardinality(backendPull(backend, name, c)) <= MaxImages
                /\ backend' = backendPull(backend, name, c)
                /\ img' = [img EXCEPT ![p] = Image(name, c)]
                /\ UNCHANGED err
    /\ UNCHANGED <<cfgVars, obsVars, calls, store, op, arg, force, id, namedRef, primaryRef, todo,
                   rmCalls, store0, backend0,
                   ctxCancelled, drainCancelled, gpc, streamBuf, waitClosed>>

\* DrainWait without close(wait).
DrainWaitNoClose(p) ==
    /\ gpc[p] = "wait"
    /\ StreamDrained(p)
    /\ gpc' = [gpc EXCEPT ![p] = "cancel"]
    /\ UNCHANGED <<cfgVars, obsVars, calls, backend, store, pc, callVars,
                   ctxCancelled, drainCancelled, streamBuf, streamClosed, waitClosed>>

\* Lines 173-174: stream.Wait() returns and close(wait) runs.
DrainWait(p) ==
    /\ gpc[p] = "wait"
    /\ StreamDrained(p)
    /\ waitClosed' = [waitClosed EXCEPT ![p] = TRUE]
    /\ gpc' = [gpc EXCEPT ![p] = "cancel"]
    /\ UNCHANGED <<cfgVars, obsVars, calls, backend, store, pc, callVars,
                   ctxCancelled, drainCancelled, streamBuf, streamClosed>>

\* DrainCancel with cancel() not deferred: it may run before stream.Wait().
DrainCancelNotDeferred(p) ==
    /\ gpc[p] \in {"wait", "cancel"}
    /\ drainCancelled' = [drainCancelled EXCEPT ![p] = TRUE]
    /\ gpc' = [gpc EXCEPT ![p] = IF @ = "wait" /\ ~drainCancelled[p] THEN "wait" ELSE "exited"]
    /\ gpc[p] = "wait" => ~drainCancelled[p]
    /\ UNCHANGED <<cfgVars, obsVars, calls, backend, store, pc, callVars,
                   ctxCancelled, streamBuf, streamClosed, waitClosed>>

\* Line 172: the deferred cancel() runs and the goroutine exits.
DrainCancel(p) ==
    /\ gpc[p] = "cancel"
    /\ drainCancelled' = [drainCancelled EXCEPT ![p] = TRUE]
    /\ gpc' = [gpc EXCEPT ![p] = "exited"]
    /\ UNCHANGED <<cfgVars, obsVars, calls, backend, store, pc, callVars,
                   ctxCancelled, streamBuf, streamClosed, waitClosed>>

\* Lines 180-185 and 299-315: <-wait, then the backend's error is returned,
\* or the pulled image's name is stored as its primary reference.
PullAwait(p) ==
    /\ pc[p] = "await"
    /\ waitClosed[p]
    /\ IF err[p] # ""
       THEN pc' = [pc EXCEPT ![p] = "done"] /\ UNCHANGED <<err, store>>
       ELSE \E cfgOk \in BOOLEAN :
               LET a == storePrimaryReference(store, img[p], cfgOk)
               IN /\ store' = a.store
                  /\ IF a.err = "" /\ IsNameTagged(Parse(img[p].name).ref)
                     THEN pc' = [pc EXCEPT ![p] = "store_search"] /\ UNCHANGED err
                     ELSE Finish(p, a.err)
    /\ UNCHANGED <<cfgVars, obsVars, calls, backend, op, arg, force, id, namedRef, primaryRef, todo,
                   img, rmCalls, store0, backend0, pullVars>>

\* Lines 319-325: the Search for the digest reference.
StoreSearch(p) ==
    /\ pc[p] = "store_search"
    /\ IF digRefMissing(store, img[p])
       THEN pc' = [pc EXCEPT ![p] = "store_alias"] /\ UNCHANGED err
       ELSE Finish(p, "")
    /\ UNCHANGED <<cfgVars, obsVars, calls, backend, store, op, arg, force, id, namedRef, primaryRef,
                   todo, img, rmCalls, store0, backend0, pullVars>>

\* StoreAlias failing when the digest reference has appeared since the Search.
StoreAliasExistsIsError(p) ==
    /\ pc[p] = "store_alias"
    /\ IF digRefMissing(store, img[p])
       THEN LET a == storeDigestReference(store, img[p])
            IN store' = a.store /\ Finish(p, a.err)
       ELSE UNCHANGED store /\ Finish(p, "conflict")
    /\ UNCHANGED <<cfgVars, obsVars, calls, backend, op, arg, force, id, namedRef, primaryRef, todo,
                   img, rmCalls, store0, backend0, pullVars>>

\* Line 322.
StoreAlias(p) ==
    /\ pc[p] = "store_alias"
    /\ LET a == storeDigestReference(store, img[p])
       IN store' = a.store /\ Finish(p, a.err)
    /\ UNCHANGED <<cfgVars, obsVars, calls, backend, op, arg, force, id, namedRef, primaryRef, todo,
                   img, rmCalls, store0, backend0, pullVars>>

\* ----------------------------------------------- CheckReference, RemoveImage
\* CheckSearch with the default registry added before the first Search.
CheckSearchDefaultFirst(p, s) ==
    LET pr == Parse(addDefaultRegistryIfMissing(s, DefaultRegistry))
        found == Search(store, pr.ref)
    IN IF pr.err # ""
       THEN Finish(p, pr.err) /\ UNCHANGED <<id, namedRef, searches>>
       ELSE /\ searches' = [searches EXCEPT ![p] = <<String(pr.ref)>>]
            /\ IF found.err = ""
               THEN /\ id' = [id EXCEPT ![p] = found.id]
                    /\ namedRef' = [namedRef EXCEPT ![p] = found.ref]
                    /\ pc' = [pc EXCEPT ![p] = "chk_primary"]
                    /\ UNCHANGED err
               ELSE Finish(p, found.err) /\ UNCHANGED <<id, namedRef>>

\* Lines 88-105: CheckReference's parse and its first Search, of idOrRef as
\* given; on NotFound the default registry is tried if it changes idOrRef.
CheckSearch(p, s) ==
    LET pr == Parse(s)
        found == Search(store, pr.ref)
    IN IF pr.err # ""
       THEN Finish(p, pr.err) /\ UNCHANGED <<id, namedRef, searches>>
       ELSE /\ searches' = [searches EXCEPT ![p] = <<String(pr.ref)>>]
            /\ IF found.err = ""
               THEN /\ id' = [id EXCEPT ![p] = found.id]
                    /\ namedRef' = [namedRef EXCEPT ![p] = found.ref]
                    /\ pc' = [pc EXCEPT ![p] = "chk_primary"]
                    /\ UNCHANGED err
               ELSE IF found.err # "notfound"
               THEN Finish(p, found.err) /\ UNCHANGED <<id, namedRef>>
               ELSE IF addDefaultRegistryIfMissing(s, DefaultRegistry) = s
               THEN Finish(p, found.err) /\ UNCHANGED <<id, namedRef>>
               ELSE /\ pc' = [pc EXCEPT ![p] = "chk_default"]
                    /\ UNCHANGED <<err, id, namedRef>>

\* CheckReference(ctx, idOrRef), called for itself.
CheckReference(p, s) ==
    /\ Idle(p)
    /\ Begin(p, "check", s, FALSE)
    /\ CheckSearch(p, s)
    /\ UNCHANGED <<cfgVars, infos, backend, store, primaryRef, todo, img, pullVars>>

\* Line 231: RemoveImage begins with CheckReference.
RemoveImage(p, s, f) ==
    /\ Idle(p)
    /\ Begin(p, "remove", s, f)
    /\ CheckSearch(p, s)
    /\ UNCHANGED <<cfgVars, infos, backend, store, primaryRef, todo, img, pullVars>>

\* CheckDefault with the error of the second Search dropped.
CheckDefaultErrorDropped(p) ==
    /\ pc[p] = "chk_default"
    /\ LET pr == Parse(addDefaultRegistryIfMissing(arg[p], DefaultRegistry))
           found == Search(store, pr.ref)
       IN /\ searches' = [searches EXCEPT ![p] = Append(@, String(pr.ref))]
          /\ IF found.err # ""
             THEN Finish(p, "") /\ UNCHANGED <<id, namedRef>>
             ELSE /\ id' = [id EXCEPT ![p] = found.id]
                  /\ namedRef' = [namedRef EXCEPT ![p] = found.ref]
                  /\ pc' = [pc EXCEPT ![p] = "chk_primary"]
                  /\ UNCHANGED err
    /\ UNCHANGED <<cfgVars, infos, calls, backend, store, op, arg, force, primaryRef, todo, img,
                   rmCalls, store0, backend0, pullVars>>

\* Lines 108-116: the Search with the default registry added.
CheckDefault(p) ==
    /\ pc[p] = "chk_default"
    /\ LET pr == Parse(addDefaultRegistryIfMissing(arg[p], DefaultRegistry))
           found == Search(store, pr.ref)
       IN IF pr.err # ""
          THEN Finish(p, pr.err) /\ UNCHANGED <<id, namedRef, searches>>
          ELSE /\ searches' = [searches EXCEPT ![p] = Append(@, String(pr.ref))]
               /\ IF found.err # ""
                  THEN Finish(p, found.err) /\ UNCHANGED <<id, namedRef>>
                  ELSE /\ id' = [id EXCEPT ![p] = found.id]
                       /\ namedRef' = [namedRef EXCEPT ![p] = found.ref]
                       /\ pc' = [pc EXCEPT ![p] = "chk_primary"]
                       /\ UNCHANGED err
    /\ UNCHANGED <<cfgVars, infos, calls, backend, store, op, arg, force, primaryRef, todo, img,
                   rmCalls, store0, backend0, pullVars>>

\* CheckReference has its triple: it returns to its caller, and RemoveImage
\* goes on at line 237.
CheckReturn(p, pref) ==
    /\ primaryRef' = [primaryRef EXCEPT ![p] = pref]
    /\ IF op[p] = "check"
       THEN Finish(p, "")
       ELSE /\ pc' = [pc EXCEPT ![p] = IF IsNamedOnly(namedRef[p])
                                       THEN "rm_guard" ELSE "rm_named"]
            /\ UNCHANGED err

\* CheckPrimary taking the last of the primary references, not the first.
CheckPrimaryLast(p) ==
    /\ pc[p] = "chk_primary"
    /\ IF IsNamedOnly(namedRef[p])
       THEN LET refs == GetPrimaryReferences(store, id[p])
            IN IF refs = <<>>
               THEN Finish(p, "notfound") /\ UNCHANGED primaryRef
               ELSE CheckReturn(p, refs[Len(refs)])
       ELSE \E r \in GetPrimaryReference(store, namedRef[p]) :
               IF r.err # ""
               THEN Finish(p, r.err) /\ UNCHANGED primaryRef
               ELSE CheckReturn(p, r.ref)
    /\ UNCHANGED <<cfgVars, obsVars, calls, backend, store, op, arg, force, id, namedRef, todo, img,
                   rmCalls, store0, backend0, pullVars>>

\* Lines 121-136: the primary reference of the match.
CheckPrimary(p) ==
    /\ pc[p] = "chk_primary"
    /\ IF IsNamedOnly(namedRef[p])
       THEN LET refs == GetPrimaryReferences(store, id[p])
            IN IF refs = <<>>
               THEN Finish(p, "notfound") /\ UNCHANGED primaryRef
               ELSE CheckReturn(p, refs[1])
       ELSE \E r \in GetPrimaryReference(store, namedRef[p]) :
               IF r.err # ""
               THEN Finish(p, r.err) /\ UNCHANGED primaryRef
               ELSE CheckReturn(p, r.ref)
    /\ UNCHANGED <<cfgVars, obsVars, calls, backend, store, op, arg, force, id, namedRef, todo, img,
                   rmCalls, store0, backend0, pullVars>>

\* RemoveGuard with the locator check left out.
RemoveGuardUnchecked(p) ==
    /\ pc[p] = "rm_guard"
    /\ pc' = [pc EXCEPT ![p] = "rm_list"]
    /\ UNCHANGED <<cfgVars, obsVars, calls, backend, store, op, arg, force, id, namedRef, primaryRef,
                   todo, img, err, rmCalls, store0, backend0, pullVars>>

\* Lines 252-254: without force, the references must share one locator.
RemoveGuard(p) ==
    /\ pc[p] = "rm_guard"
    /\ IF ~force[p] /\ ~uniqueLocatorReference(GetReferences(store, id[p]))
       THEN Finish(p, "mustforce")
       ELSE pc' = [pc EXCEPT ![p] = "rm_list"] /\ UNCHANGED err
    /\ UNCHANGED <<cfgVars, obsVars, calls, backend, store, op, arg, force, id, namedRef, primaryRef,
                   todo, img, rmCalls, store0, backend0, pullVars>>

\* Line 256: the range over GetPrimaryReferences(id) is taken.
RemoveList(p) ==
    /\ pc[p] = "rm_list"
    /\ LET refs == GetPrimaryReferences(store, id[p])
       IN /\ todo' = [todo EXCEPT ![p] = refs]
          /\ IF refs = <<>>
             THEN Finish(p, "")
             ELSE pc' = [pc EXCEPT ![p] = "rm_backend"] /\ UNCHANGED err
    /\ UNCHANGED <<cfgVars, obsVars, calls, backend, store, op, arg, force, id, namedRef, primaryRef,
                   img, rmCalls, store0, backend0, pullVars>>

\* client.RemoveImage(name): it fails, or the handle is there and is removed.
ClientRemove(p, name, next) ==
    /\ rmCalls' = [rmCalls EXCEPT ![p] = Append(@, name)]
    /\ \/ Finish(p, "backend") /\ UNCHANGED backend
       \/ /\ name \in BackendNames(backend)
          /\ backend' = backendRemove(backend, name)
          /\ next

\* RemoveLoopBackend going on to the store whatever the backend returned.
RemoveLoopBackendErrorIgnored(p) ==
    /\ pc[p] = "rm_backend"
    /\ rmCalls' = [rmCalls EXCEPT ![p] = Append(@, String(Head(todo[p])))]
    /\ \/ UNCHANGED backend
       \/ /\ String(Head(todo[p])) \in BackendNames(backend)
          /\ backend' = backendRemove(backend, String(Head(todo[p])))
    /\ pc' = [pc EXCEPT ![p] = "rm_store"]
    /\ UNCHANGED <<cfgVars, obsVars, calls, store, op, arg, force, id, namedRef, primaryRef, todo, img,
                   store0, backend0, pullVars, err>>

\* Line 257: the backend removes the next primary reference.
RemoveLoopBackend(p) ==
    /\ pc[p] = "rm_backend"
    /\ ClientRemove(p, String(Head(todo[p])),
                    pc' = [pc EXCEPT ![p] = "rm_store"] /\ UNCHANGED err)
    /\ UNCHANGED <<cfgVars, obsVars, calls, store, op, arg, force, id, namedRef, primaryRef, todo, img,
                   store0, backend0, pullVars>>

\* RemoveLoopStore returning nil after the first reference.
RemoveLoopStoreOnce(p) ==
    /\ pc[p] = "rm_store"
    /\ LET r == RemoveReference(store, id[p], Head(todo[p]))
       IN /\ store' = r.store
          /\ Finish(p, r.err)
          /\ todo' = [todo EXCEPT ![p] = Tail(@)]
    /\ UNCHANGED <<cfgVars, obsVars, calls, backend, op, arg, force, id, namedRef, primaryRef, img,
                   rmCalls, store0, backend0, pullVars>>

\* Line 261: the store removes it, and the loop goes on or ends.
RemoveLoopStore(p) ==
    /\ pc[p] = "rm_store"
    /\ LET r == RemoveReference(store, id[p], Head(todo[p]))
       IN /\ store' = r.store
          /\ IF r.err # "" THEN Finish(p, r.err) /\ UNCHANGED todo
             ELSE /\ todo' = [todo EXCEPT ![p] = Tail(@)]
                  /\ IF Tail(todo[p]) = <<>>
                     THEN Finish(p, "")
                     ELSE pc' = [pc EXCEPT ![p] = "rm_backend"] /\ UNCHANGED err
    /\ UNCHANGED <<cfgVars, obsVars, calls, backend, op, arg, force, id, namedRef, primaryRef, img,
                   rmCalls, store0, backend0, pullVars>>

\* RemoveNamed without the comparison of line 270: whatever the name, the
\* primary reference is removed, from the store and then from the backend.
RemoveNamedAlwaysPrimary(p) ==
    /\ pc[p] = "rm_named"
    /\ LET r == RemoveReference(store, id[p], primaryRef[p])
       IN /\ store' = r.store
          /\ IF r.err # "" THEN Finish(p, r.err)
             ELSE pc' = [pc EXCEPT ![p] = "rm_named_backend"] /\ UNCHANGED err
    /\ UNCHANGED <<cfgVars, obsVars, calls, backend, op, arg, force, id, namedRef, primaryRef, todo, img,
                   rmCalls, store0, backend0, pullVars>>

\* Lines 268-277: the removal by a concrete name, in the store.
RemoveNamed(p) ==
    /\ pc[p] = "rm_named"
    /\ LET nr == TrimTagForDigest(namedRef[p])
       IN IF String(primaryRef[p]) = String(nr)
          THEN LET r == RemoveReference(store, id[p], primaryRef[p])
               IN /\ store' = r.store
                  /\ IF r.err # "" THEN Finish(p, r.err)
                     ELSE pc' = [pc EXCEPT ![p] = "rm_named_backend"] /\ UNCHANGED err
          ELSE LET r == RemoveReference(store, id[p], nr)
               IN store' = r.store /\ Finish(p, r.err)
    /\ UNCHANGED <<cfgVars, obsVars, calls, backend, op, arg, force, id, namedRef, primaryRef, todo, img,
                   rmCalls, store0, backend0, pullVars>>

\* Line 275: the backend removes the primary reference.
RemoveNamedBackend(p) ==
    /\ pc[p] = "rm_named_backend"
    /\ ClientRemove(p, String(primaryRef[p]), Finish(p, ""))
    /\ UNCHANGED <<cfgVars, obsVars, calls, store, op, arg, force, id, namedRef, primaryRef, todo, img,
                   store0, backend0, pullVars>>

\* --------------------------------------------------------------- ListImages
\* containerdImageToImageInfo: the summary of a handle, with the tags and
\* digests the store knows for its config digest.
containerdImageToImageInfo(st, im) ==
    LET refs == Range(GetReferences(st, ConfigDigest(im.content)))
    IN [ID |-> ConfigDigest(im.content),
        RepoTags |-> {String(r) : r \in {x \in refs : IsNameTagged(x)}},
        RepoDigests |-> {String(r) : r \in {x \in refs : IsCanonicalDigested(x)}}]

RECURSIVE listInfosByName(_, _, _, _)
\* listInfos with the summaries indexed by the handle's name.
listInfosByName(st, imgs, failAt, m) ==
    IF imgs = <<>> THEN [err |-> "", infos |-> m]
    ELSE IF failAt = 1 THEN [err |-> "config", infos |-> {}]
    ELSE LET im == Head(imgs)
             info == containerdImageToImageInfo(st, im)
         IN listInfosByName(st, Tail(imgs), failAt - 1,
                            m \cup {[key |-> im.name, info |-> info]})

RECURSIVE listInfos(_, _, _, _)
\* Lines 195-212: the loop over imgs that fills imgInfosIndexByID (m: its
\* entries); failAt is the position of the handle whose descriptor cannot be
\* fetched (0: none).
listInfos(st, imgs, failAt, m) ==
    IF imgs = <<>> THEN [err |-> "", infos |-> m]
    ELSE IF failAt = 1 THEN [err |-> "config", infos |-> {}]
    ELSE LET im == Head(imgs)
             info == containerdImageToImageInfo(st, im)
         IN IF \E e \in m : e.key = ConfigDigest(im.content)
            THEN listInfos(st, Tail(imgs), failAt - 1, m)
            ELSE listInfos(st, Tail(imgs), failAt - 1,
                           m \cup {[key |-> info.ID, info |-> info]})

\* ListImages(ctx, filter...): the backend lists its handles (or fails), and
\* the summaries in the index are returned, one per entry.
ListImages(p) ==
    /\ Idle(p)
    /\ Begin(p, "list", EmptyString, FALSE)
    /\ \E listOk \in BOOLEAN, imgs \in Listings(backend), failAt \in 0..Cardinality(backend) :
          LET r == IF listOk THEN listInfos(store, imgs, failAt, {})
                   ELSE [err |-> "list", infos |-> {}]
          IN /\ infos' = [infos EXCEPT ![p] = r.infos]
             /\ Finish(p, r.err)
    /\ UNCHANGED <<cfgVars, searches, backend, store, id, namedRef, primaryRef, todo, img,
                   pullVars>>

\* The caller has its result and is ready for its next call; the drain
\* goroutine of its last pull has exited.
Return(p) ==
    /\ pc[p] = "done"
    /\ gpc[p] \in {"none", "exited"}
    /\ pc' = [pc EXCEPT ![p] = "idle"]
    /\ op' = [op EXCEPT ![p] = "none"]
    /\ arg' = [arg EXCEPT ![p] = EmptyString]
    /\ force' = [force EXCEPT ![p] = FALSE]
    /\ id' = [id EXCEPT ![p] = ""]
    /\ namedRef' = [namedRef EXCEPT ![p] = NoRef]
    /\ primaryRef' = [primaryRef EXCEPT ![p] = NoRef]
    /\ todo' = [todo EXCEPT ![p] = <<>>]
    /\ img' = [img EXCEPT ![p] = NoImage]
    /\ err' = [err EXCEPT ![p] = ""]
    /\ rmCalls' = [rmCalls EXCEPT ![p] = <<>>]
    /\ store0' = [store0 EXCEPT ![p] = <<>>]
    /\ backend0' = [backend0 EXCEPT ![p] = {}]
    /\ ctxCancelled' = [ctxCancelled EXCEPT ![p] = FALSE]
    /\ drainCancelled' = [drainCancelled EXCEPT ![p] = FALSE]
    /\ gpc' = [gpc EXCEPT ![p] = "none"]
    /\ streamBuf' = [streamBuf EXCEPT ![p] = 0]
    /\ streamClosed' = [streamClosed EXCEPT ![p] = FALSE]
    /\ waitClosed' = [waitClosed EXCEPT ![p] = FALSE]
    /\ searches' = [searches EXCEPT ![p] = <<>>]
    /\ infos' = [infos EXCEPT ![p] = {}]
    /\ UNCHANGED <<cfgVars, calls, backend, store>>

\* ------------------------------------------------------------ specification
\* What callers pull: a bare repository name, and a name with a tag and a
\* digest; with and without a registry; and the unparsable string.
PullInputs ==
    {Name(r, "", "") : r \in Registries}
        \cup {Name(r, DefaultTag, TargetDigest("1")) : r \in Registries}
        \cup {EmptyString}
\* What callers remove: tagged names, digest names, image IDs.
RemoveInputs ==
    {Name(r, DefaultTag, "") : r \in Registries}
        \cup {Name(r, "", TargetDigest("1")) : r \in Registries}
        \cup IDStrings \cup {EmptyString}

\* What callers resolve: what they remove.
CheckInputs == RemoveInputs

Next ==
    \/ NewImageManager
    \/ \E p \in Procs, s \in PullInputs : PullImage(p, s)
    \/ \E p \in Procs : CallerCancel(p)
    \/ \E p \in Procs : BackendProgress(p)
    \/ \E p \in Procs : StreamFlush(p)
    \/ \E p \in Procs : BackendPullReturn(p)
    \/ \E p \in Procs : DrainWait(p)
    \/ \E p \in Procs : DrainCancel(p)
    \/ \E p \in Procs : PullAwait(p)
    \/ \E p \in Procs : StoreSearch(p)
    \/ \E p \in Procs : StoreAlias(p)
    \/ \E p \in Procs, s \in RemoveInputs, f \in BOOLEAN : RemoveImage(p, s, f)
    \/ \E p \in Procs, s \in CheckInputs : CheckReference(p, s)
    \/ \E p \in Procs : ListImages(p)
    \/ \E p \in Procs : CheckDefault(p)
    \/ \E p \in Procs : CheckPrimary(p)
    \/ \E p \in Procs : RemoveGuard(p)
    \/ \E p \in Procs : RemoveList(p)
    \/ \E p \in Procs : RemoveLoopBackend(p)
    \/ \E p \in Procs : RemoveLoopStore(p)
    \/ \E p \in Procs : RemoveNamed(p)
    \/ \E p \in Procs : RemoveNamedBackend(p)
    \/ \E p \in Procs : Return(p)

Spec == Init /\ [][Next]_vars
SpecConc == InitConc /\ [][Next]_vars

\* The scheduler runs every goroutine that can take a step, and the stream
\* writes what it has buffered; the backend and the caller owe nothing.
Fairness ==
    \A p \in Procs :
        /\ WF_vars(StreamFlush(p))
        /\ WF_vars(DrainWait(p))
        /\ WF_vars(DrainCancel(p))
        /\ WF_vars(PullAwait(p))
        /\ WF_vars(StoreSearch(p))
        /\ WF_vars(StoreAlias(p))
SpecLive == Init /\ [][Next]_vars /\ Fairness

\* ------------------------------------------------------------------ claims
\* The lone caller of Spec.
P1 == "p1"
Done(p) == pc[p] = "done"
IsRecord(st, d, ref, primary) ==
    \E r \in Range(st) : r.id = d /\ String(r.ref) = String(ref) /\ r.primary = primary

RefUnique ==
    \A r \in Range(store) : Cardinality(DigestsOf(store, r.ref)) = 1

\* C2 (step): when storeImageReference reaches AddReference with a name the
\* store binds to another digest, the call fails and nothing is rebound.
ConflictNotRebound ==
    \A p \in Procs :
        (/\ pc[p] = "await" /\ pc'[p] # "await" /\ err[p] = ""
         /\ DigestsOf(store, Parse(img[p].name).ref) \ {ConfigDigest(img[p].content)} # {})
        => (store' = store /\ pc'[p] = "done" /\ err'[p] \in {"conflict", "config"})

\* C2: in every reachable state, under all interleavings of concurrent
\* PullImage and RemoveImage calls, a reference string resolves to at most
\* one digest; a storeImageReference that would bind an already bound
\* reference string to a different digest fails with a Conflict error (when
\* the config descriptor could be read at all) instead of rebinding it.
C2_ReferenceResolvesToOneDigest ==
    []RefUnique /\ [][ConflictNotRebound]_vars

\* C2's case: a pull of a tag whose content moved has returned Conflict.
C2_Witness ==
    \E p \in Procs :
        /\ Done(p) /\ op[p] = "pull" /\ err[p] = "conflict"
        /\ DigestsOf(store, Parse(img[p].name).ref) \ {ConfigDigest(img[p].content)} # {}

\* The case of C3: a RemoveImage by image ID, without force, of a digest
\* whose references were under more than one locator when it began.
MustForceCase(p) ==
    /\ Done(p) /\ op[p] = "remove"
    /\ id[p] # "" /\ IsNamedOnly(namedRef[p]) /\ ~force[p]
    /\ ~uniqueLocatorReference(GetReferences(store0[p], id[p]))

\* C3: RemoveImage(idOrRef, force=false), where idOrRef resolves as a
\* NameOnly (image ID) match and the digest's reference records do not all
\* share one locator, returns the must-force error and mutates nothing: the
\* local store is unchanged and the backend receives no RemoveImage call.
C3_MustForceMutatesNothing ==
    MustForceCase(P1) =>
        /\ err[P1] = "mustforce"
        /\ store = store0[P1]
        /\ backend = backend0[P1]
        /\ rmCalls[P1] = <<>>

C3_Witness == MustForceCase(P1) /\ err[P1] = "mustforce"

RefStrings(refs) == [i \in 1..Len(refs) |-> String(refs[i])]

\* The case of C4: a RemoveImage by image ID has returned success.
BareIDRemoved(p) ==
    /\ Done(p) /\ op[p] = "remove" /\ err[p] = ""
    /\ id[p] # "" /\ IsNamedOnly(namedRef[p])

AliasCase(p) ==
    /\ Done(p) /\ op[p] = "remove"
    /\ id[p] # "" /\ ~IsNamedOnly(namedRef[p])
    /\ IsRecord(store0[p], id[p], TrimTagForDigest(namedRef[p]), FALSE)

\* C5: RemoveImage on a concrete name that resolves to a non-Primary Alias
\* record removes only that Alias record: the backend receives no
\* RemoveImage call, every Primary record of the digest is unchanged, and
\* Search on a primary name still resolves to the same digest.
C5_AliasRemovalTouchesOnlyAlias ==
    AliasCase(P1) =>
        /\ err[P1] = ""
        /\ store = DropRecord(store0[P1], id[P1], TrimTagForDigest(namedRef[P1]))
        /\ rmCalls[P1] = <<>>
        /\ backend = backend0[P1]
        /\ GetPrimaryReferences(store, id[P1]) = GetPrimaryReferences(store0[P1], id[P1])
        /\ \A r \in Range(GetPrimaryReferences(store0[P1], id[P1])) :
              Search(store, r).err = "" /\ Search(store, r).id = id[P1]

C5_Witness == AliasCase(P1) /\ Len(store) + 1 = Len(store0[P1])

\* C6: a failed pull leaves no partial store record: whenever PullImage
\* returns an error (parse, backend pull, config descriptor, Conflict), the
\* local store is what it was before the call.
C6_FailedPullLeavesStore ==
    (Done(P1) /\ op[P1] = "pull" /\ err[P1] # "") => store = store0[P1]

\* C6's case: the backend pulled the image and storeImageReference failed.
C6_Witness ==
    /\ Done(P1) /\ op[P1] = "pull" /\ err[P1] \in {"conflict", "config"}
    /\ backend # backend0[P1]

\* The case of C7: a RemoveImage by a concrete name that is the primary
\* reference CheckReference returned.
PrimaryNameCase(p) ==
    /\ Done(p) /\ op[p] = "remove"
    /\ id[p] # "" /\ ~IsNamedOnly(namedRef[p]) /\ primaryRef[p] # NoRef
    /\ String(primaryRef[p]) = String(TrimTagForDigest(namedRef[p]))

\* C7: RemoveImage by concrete name fails atomically: when the name is the
\* digest's primary reference and the call returns an error (the backend
\* RemoveImage fails), the local store is unchanged, so the primary record
\* still resolves and store and backend agree that the image exists.
C7_NamedRemovalFailsAtomically ==
    (PrimaryNameCase(P1) /\ err[P1] # "") =>
        /\ store = store0[P1]
        /\ Search(store, primaryRef[P1]).err = ""

\* The case of C8: a PullImage of a tagged name has returned success.
TaggedPullDone(p) ==
    /\ Done(p) /\ op[p] = "pull" /\ err[p] = "" /\ img[p] # NoImage
    /\ IsNameTagged(Parse(img[p].name).ref)
PulledTwice(p) ==
    /\ IsRecord(store0[p], ConfigDigest(img[p].content), Parse(img[p].name).ref, TRUE)
    /\ IsRecord(store0[p], ConfigDigest(img[p].content), digRefOf(img[p]), FALSE)

\* C8: pulling the same tagged image is idempotent on the store: the first
\* successful PullImage of a tagged name registers exactly two records for
\* its digest (the tag as Primary, repo@digest as Alias); a second PullImage
\* of the same tag with the same content returns no Conflict and leaves the
\* store as the first pull left it.
C8_PullTwiceIdempotent ==
    /\ TaggedPullDone(P1) =>
          LET d == ConfigDigest(img[P1].content)
              name == Parse(img[P1].name).ref
          IN /\ d \notin StoreIDs(store0[P1]) =>
                   store = store0[P1] \o <<Record(d, name, TRUE),
                                            Record(d, digRefOf(img[P1]), FALSE)>>
             /\ PulledTwice(P1) => store = store0[P1]
    /\ (Done(P1) /\ op[P1] = "pull" /\ img[P1] # NoImage /\ PulledTwice(P1))
          => err[P1] # "conflict"

C8_Witness == TaggedPullDone(P1) /\ PulledTwice(P1) /\ store = store0[P1]

C10_DrainTaskCompletedBeforeReturn ==
    \A p \in Procs :
        (op[p] = "pull" /\ gpc[p] # "none"
            /\ pc[p] \in {"store_search", "store_alias", "done"})
        => (StreamDrained(p) /\ waitClosed[p] /\ gpc[p] = "exited")

\* A CheckReference call, made for itself, has returned.
CheckDone(p) == Done(p) /\ op[p] = "check"
\* idOrRef parses and resolves neither as given nor with the default
\* registry added.
Unresolvable(st, s) ==
    /\ Parse(s).err = ""
    /\ Search(st, Parse(s).ref).err = "notfound"
    /\ Search(st, Parse(addDefaultRegistryIfMissing(s, DefaultRegistry)).ref).err = "notfound"

\* C11: CheckReference never mutates the local store (nor the backend); for
\* an input that resolves neither as given nor after the default registry
\* is added, it returns NotFound and the store is unchanged.
C11_CheckReferenceLeavesStore ==
    op[P1] = "check" =>
        /\ store = store0[P1]
        /\ backend = backend0[P1]
        /\ (Done(P1) /\ Unresolvable(store0[P1], arg[P1])) => err[P1] = "notfound"

\* C11's case: both lookups were made in a store that has records, and
\* neither resolved.
C11_Witness ==
    /\ CheckDone(P1) /\ Unresolvable(store0[P1], arg[P1])
    /\ Len(searches[P1]) = 2 /\ store # <<>> /\ err[P1] = "notfound"

\* C12: bootstrap is all-or-nothing for construction: when updateLocalStore
\* fails (the backend's list, or storeImageReference of a listed image),
\* NewImageManager returns the error and no manager, so that no call is ever
\* served; when it succeeds, every image the backend listed has its name
\* registered as a Primary record of its config digest.
C12_BootstrapAllOrNothing ==
    /\ mgr = "init" => (store = <<>> /\ bootErr = "")
    /\ bootErr # "" => (mgr = "failed" /\ calls = 0 /\ \A p \in Procs : pc[p] = "idle")
    /\ mgr = "failed" => bootErr # ""
    /\ (mgr = "up" /\ calls = 0) =>
          \A im \in backend :
              IsRecord(store, ConfigDigest(im.content), Parse(im.name).ref, TRUE)

\* C12's case: the first listed image was registered, the second one failed,
\* and there is no manager.
C12_Witness ==
    mgr = "failed" /\ bootErr = "config" /\ store # <<>> /\ Cardinality(backend) = 2

\* The case of C13: a RemoveImage by a concrete name that was a Primary
\* record of its digest when the call began.
PrimaryRecordCase(p) ==
    /\ Done(p) /\ op[p] = "remove"
    /\ id[p] # "" /\ ~IsNamedOnly(namedRef[p])
    /\ IsRecord(store0[p], id[p], TrimTagForDigest(namedRef[p]), TRUE)

\* C13: RemoveImage with a concrete name that is registered as a Primary
\* record of its digest, when it succeeds, has removed the content from the
\* backend under that name and the Primary record from the store, whichever
\* of the digest's Primary records the name is.
C13_PrimaryNameRemovedFromBackend ==
    (PrimaryRecordCase(P1) /\ err[P1] = "") =>
        LET nr == TrimTagForDigest(namedRef[P1])
        IN /\ rmCalls[P1] = <<String(nr)>>
           /\ String(nr) \notin BackendNames(backend)
           /\ ~IsRecord(store, id[P1], nr, TRUE)

\* C14: CheckReference is a two-pass lookup. The first Search is of the
\* input as given; if it succeeds its match is the result and no default is
\* applied; if it fails with another error than NotFound, or if adding the
\* default registry changes nothing, its error is returned without a second
\* Search; the second Search, of the input with the default registry added,
\* is made only after a NotFound and when the default changes the input.
C14_TwoPassLookup ==
    (op[P1] \in {"check", "remove"} /\ Parse(arg[P1]).err = "") =>
        LET first == Parse(arg[P1]).ref
            inj == addDefaultRegistryIfMissing(arg[P1], DefaultRegistry)
            hit == Search(store0[P1], first)
            second == Search(store0[P1], Parse(inj).ref)
        IN /\ Len(searches[P1]) = 2 => (hit.err = "notfound" /\ inj # arg[P1])
           /\ CheckDone(P1) =>
                 /\ hit.err = "" =>
                       /\ searches[P1] = <<String(first)>>
                       /\ id[P1] = hit.id /\ namedRef[P1] = first
                 /\ (hit.err # "" /\ (hit.err # "notfound" \/ inj = arg[P1])) =>
                       /\ searches[P1] = <<String(first)>>
                       /\ err[P1] = hit.err
                 /\ (hit.err = "notfound" /\ inj # arg[P1]) =>
                       /\ searches[P1] = <<String(first), inj>>
                       /\ IF second.err # "" THEN err[P1] = second.err
                          ELSE id[P1] = second.id /\ namedRef[P1] = Parse(inj).ref

\* C14's case: the name did not resolve as given and resolved with the
\* default registry added.
C14_Witness ==
    /\ CheckDone(P1) /\ err[P1] = ""
    /\ Len(searches[P1]) = 2 /\ searches[P1][1] # searches[P1][2]
    /\ namedRef[P1] # Parse(arg[P1]).ref

\* The step in which CheckReference determines primaryRef.
CheckResolves(p) == pc[p] = "chk_primary" /\ pc'[p] # "chk_primary"
PrimaryOfMatch ==
    \A p \in Procs : CheckResolves(p) =>
        LET refs == GetPrimaryReferences(store, id[p])
        IN IF IsNamedOnly(namedRef[p])
           THEN IF refs = <<>>
                THEN pc'[p] = "done" /\ err'[p] = "notfound" /\ primaryRef'[p] = NoRef
                ELSE /\ err'[p] = "" /\ primaryRef'[p] = refs[1]
                     /\ Search(store, namedRef[p]).id = id[p]
                     /\ IsRecord(store, id[p], primaryRef'[p], TRUE)
           ELSE err'[p] = "" =>
                   /\ \E d \in DigestsOf(store, namedRef[p]) :
                         IsRecord(store, d, primaryRef'[p], TRUE)
                   /\ Search(store, namedRef[p]).id = id[p] =>
                         IsRecord(store, id[p], primaryRef'[p], TRUE)

RECURSIVE DropAll(_, _, _)
\* The store without the records of the digest for refs.
DropAll(st, d, refs) ==
    IF refs = <<>> THEN st ELSE DropAll(DropRecord(st, d, Head(refs)), d, Tail(refs))

\* The case of C16: a RemoveImage by image ID is in its loop, or has left it.
BareIDLoop(p) ==
    /\ op[p] = "remove" /\ id[p] # "" /\ IsNamedOnly(namedRef[p])
    /\ pc[p] \in {"rm_backend", "rm_store", "done"}

\* C16: in a RemoveImage by image ID over several Primary references, a
\* Primary record leaves the store only after the backend RemoveImage for
\* that reference has succeeded; when the backend fails on the k-th
\* Primary, the error is returned, the first k-1 Primaries are removed from
\* backend and store, and the k-th and the later Primary records are still
\* in the store.
C16_LoopRemovesBackendFirst ==
    BareIDLoop(P1) =>
        LET prims == GetPrimaryReferences(store0[P1], id[P1])
            k == Len(rmCalls[P1])
        IN /\ \A i \in 1..Len(prims) :
                 ~IsRecord(store, id[P1], prims[i], TRUE) =>
                     /\ i <= k /\ rmCalls[P1][i] = String(prims[i])
                     /\ String(prims[i]) \notin BackendNames(backend)
           /\ (Done(P1) /\ err[P1] = "backend") =>
                 /\ k >= 1 /\ rmCalls[P1] = RefStrings(SubSeq(prims, 1, k))
                 /\ store = DropAll(store0[P1], id[P1], SubSeq(prims, 1, k - 1))
                 /\ backend = {im \in backend0[P1] :
                                  \A i \in 1..(k - 1) : im.name # String(prims[i])}
                 /\ \A i \in k..Len(prims) : IsRecord(store, id[P1], prims[i], TRUE)

\* C16's case: the backend removed the first Primary and failed on the
\* second.
C16_Witness ==
    /\ BareIDLoop(P1) /\ Done(P1) /\ err[P1] = "backend"
    /\ Len(rmCalls[P1]) = 2 /\ Len(store) + 1 = Len(store0[P1])

\* C17: in every interleaving of a RemoveImage by image ID with force=false
\* and concurrent PullImage calls on the same digest, the references the
\* removal deletes share one locator: what the loop removes is what the
\* locator check saw.
C17_UnforcedRemovalWithinOneLocator ==
    \A p \in Procs :
        (/\ op[p] = "remove" /\ ~force[p] /\ IsNamedOnly(namedRef[p])
         /\ pc[p] \in {"rm_backend", "rm_store"})
        => uniqueLocatorReference([i \in 1..Len(rmCalls[p]) |-> Parse(rmCalls[p][i]).ref]
                                      \o todo[p])

\* The case of C18: the two callers have each made one call, a PullImage,
\* and the backend gave both the same tagged image.
TwoPullsDone ==
    /\ calls = 2
    /\ \A p \in Procs :
          /\ Done(p) /\ op[p] = "pull" /\ img[p] = img[P1] /\ img[p] # NoImage
          /\ IsNameTagged(Parse(img[p].name).ref)

\* C18: two concurrent PullImage calls for the same tagged image both
\* return success under every interleaving of their store accesses (unless
\* the config descriptor cannot be read, or the tag was bound to another
\* digest before them), and the store then holds for the image the two
\* records a single pull registers: the tag as Primary, repo@digest
\* resolving to the same digest.
C18_ConcurrentPullsBothSucceed ==
    TwoPullsDone =>
        LET d == ConfigDigest(img[P1].content)
            tag == Parse(img[P1].name).ref
            dig == digRefOf(img[P1])
        IN /\ \A p \in Procs :
                 \/ err[p] \in {"", "config"}
                 \/ err[p] = "conflict" /\ DigestsOf(store, tag) \ {d} # {}
           /\ (\E p \in Procs : err[p] = "") =>
                 /\ IsRecord(store, d, tag, TRUE)
                 /\ DigestsOf(store, dig) = {d}
                 /\ Cardinality(backend) = 1 =>
                       store = <<Record(d, tag, TRUE), Record(d, dig, FALSE)>>

\* C18's case: both pulls have returned success.
C18_Witness ==
    /\ TwoPullsDone /\ \A p \in Procs : err[p] = ""
    /\ Len(store) = 2

C20_ListImagesOnePerDigest ==
    op[P1] = "list" =>
        /\ store = store0[P1]
        /\ backend = backend0[P1]
        /\ Done(P1) =>
              LET digests == {ConfigDigest(im.content) : im \in backend}
              IN IF err[P1] = ""
                 THEN /\ {e.info.ID : e \in infos[P1]} = digests
                      /\ Cardinality(infos[P1]) = Cardinality(digests)
                      /\ \A e \in infos[P1] :
                            \E im \in backend : e.info = containerdImageToImageInfo(store, im)
                 ELSE err[P1] \in {"list", "config"} /\ infos[P1] = {}

\* C20's case: two handles of the backend share a digest, and one summary
\* is returned.
C20_Witness ==
    /\ Done(P1) /\ op[P1] = "list" /\ err[P1] = ""
    /\ Cardinality(backend) = 2 /\ Cardinality(infos[P1]) = 1

====
